---- MODULE Spec2Model ----
(***************************************************************************)
(* Model of the two behaviour-assay extraction scripts                     *)
(*   src/get_DKO_data.py       (open field, light-dark, self-grooming)     *)
(*   src/get_rotation_data.py  (self-grooming, genotype, marbles,          *)
(*                              light-dark)                                *)
(* Both scripts are straight-line batch programs.  The model has two       *)
(* specifications:                                                         *)
(*   SpecFn  applies the per-file computations (timestamp conversion,      *)
(*           grooming aggregation, light-dark distance and transition      *)
(*           loop) to inputs drawn from bounded sets;                      *)
(*   Spec    runs either script section by section over a nondeterministic *)
(*           file system, with the mouse dictionary d and the summary      *)
(*           table SUMdf as state.                                         *)
(*                                                                         *)
(* Number representation.  Python floats are modelled exactly:             *)
(*   - a duration in seconds is [sec, usec] (usec in 0..999999);           *)
(*   - a percentage is the fraction [num, den];                            *)
(*   - a distance sqrt(sq) * num / den is [sq, num, den].                  *)
(* Floating-point rounding is outside the model.                           *)
(***************************************************************************)
EXTENDS Integers, Sequences, FiniteSets, TLC

VARIABLES
    script,        \* which script runs: "DKO" or "rotation"
    pc,            \* the section of the script being executed
    err,           \* the exception that ended the run, "none" while running
    d,             \* mouse dictionary: sequence of [key, val] in insertion order
    SUMdf,         \* summary dataframe: [defined, cols, rows]
    circle,        \* (cx, cy, r) of get_DKO_data, [defined, c]
    center_props,  \* get_DKO_data list
    distance_m,    \* get_DKO_data list
    SG_dur,        \* get_rotation_data list
    SG_bouts,      \* get_rotation_data list
    subjectdata,   \* get_rotation_data colony records of the subjects
    fs,            \* the files read so far: per directory, a set of [file, content]
    ki,            \* position of the running loop over d.keys()
    fn,            \* SpecFn: the computation applied
    inp,           \* SpecFn: its input
    out            \* SpecFn: its result

pvars == <<script, pc, err, d, SUMdf, circle, center_props, distance_m,
           SG_dur, SG_bouts, subjectdata, fs, ki>>
fvars == <<fn, inp, out>>
vars == <<script, pc, err, d, SUMdf, circle, center_props, distance_m,
          SG_dur, SG_bouts, subjectdata, fs, ki, fn, inp, out>>

(***************************************************************************)
(* Bounds of the model                                                     *)
(***************************************************************************)
MaxFrames == 3     \* frames of a light-dark trajectory (SpecFn)
MaxRows == 3       \* rows of a grooming table besides the worked example
MaxCoord == 1      \* largest pixel coordinate of a light-dark frame

(***************************************************************************)
(* Python helpers                                                          *)
(***************************************************************************)
Min(a, b) == IF a <= b THEN a ELSE b

\* s[start::step] on a 0-indexed Python sequence (TLA+ index = Python index + 1)
PySlice(s, start, step) ==
    LET n == IF Len(s) > start THEN (Len(s) - start + step - 1) \div step ELSE 0
    IN  [j \in 1..n |-> s[start + (j - 1) * step + 1]]

RECURSIVE SeqSum(_)
SeqSum(s) == IF s = <<>> THEN 0 ELSE s[1] + SeqSum(Tail(s))

(***************************************************************************)
(* Timestamp conversion: datetime.strptime(.., '%H:%M:%S.%f') followed by   *)
(* timedelta(minutes, seconds, microseconds).total_seconds().              *)
(* A string is a sequence of one-character strings.                        *)
(***************************************************************************)
Digits == {"0", "1", "2", "3", "4", "5", "6", "7", "8", "9"}

DigitVal(c) ==
    CASE c = "0" -> 0 [] c = "1" -> 1 [] c = "2" -> 2 [] c = "3" -> 3
      [] c = "4" -> 4 [] c = "5" -> 5 [] c = "6" -> 6 [] c = "7" -> 7
      [] c = "8" -> 8 [] c = "9" -> 9

\* length of the longest run of digits of s that starts at position i
RECURSIVE DigitRun(_, _)
DigitRun(s, i) ==
    IF i <= Len(s) /\ s[i] \in Digits THEN 1 + DigitRun(s, i + 1) ELSE 0

RECURSIVE IntOf(_)
IntOf(ds) ==
    IF ds = <<>> THEN 0
    ELSE IntOf(SubSeq(ds, 1, Len(ds) - 1)) * 10 + DigitVal(ds[Len(ds)])

\* int(s + "0" * (6 - len(s))) of the %f field
RECURSIVE PadFraction(_)
PadFraction(ds) == IF Len(ds) >= 6 THEN ds ELSE PadFraction(Append(ds, "0"))

ParseError == [ok |-> FALSE, hour |-> 0, minute |-> 0, second |-> 0, microsecond |-> 0]

\* The directive regexes of strptime: %H 2[0-3]|[0-1]\d|\d, %M [0-5]\d|\d,
\* %S 6[0-1]|[0-5]\d|\d, %f [0-9]{1,6}; the literals ':' ':' '.' between
\* them; the whole string must be consumed; datetime() rejects second > 59.
strptime(s) ==
    LET nH == DigitRun(s, 1)
        pM == nH + 2
        nM == DigitRun(s, pM)
        pS == pM + nM + 1
        nS == DigitRun(s, pS)
        pF == pS + nS + 1
        nF == DigitRun(s, pF)
        H  == IntOf(SubSeq(s, 1, nH))
        M  == IntOf(SubSeq(s, pM, pM + nM - 1))
        S  == IntOf(SubSeq(s, pS, pS + nS - 1))
        F  == IntOf(PadFraction(SubSeq(s, pF, pF + nF - 1)))
    IN  IF /\ nH \in 1..2 /\ H <= 23
           /\ nH + 1 <= Len(s) /\ s[nH + 1] = ":"
           /\ nM \in 1..2 /\ M <= 59
           /\ pM + nM <= Len(s) /\ s[pM + nM] = ":"
           /\ nS \in 1..2 /\ S <= 61
           /\ pS + nS <= Len(s) /\ s[pS + nS] = "."
           /\ nF \in 1..6
           /\ pF + nF - 1 = Len(s)
           /\ S <= 59
        THEN [ok |-> TRUE, hour |-> H, minute |-> M, second |-> S, microsecond |-> F]
        ELSE ParseError

\* timedelta(minutes=D.minute, seconds=D.second,
\*           microseconds=D.microsecond).total_seconds()
total_seconds(D) == [sec |-> D.minute * 60 + D.second, usec |-> D.microsecond]

\* one cell of the conversion loop: [ok, v]
to_seconds(s) ==
    LET D == strptime(s)
    IN  IF D.ok THEN [ok |-> TRUE, v |-> total_seconds(D)]
        ELSE [ok |-> FALSE, v |-> [sec |-> 0, usec |-> 0]]

(***************************************************************************)
(* Grooming score table: rows [duration, timestamp] of strings; the        *)
(* conversion loop rewrites both columns in seconds, row by row, and       *)
(* raises ValueError at the first cell that does not parse.                *)
(***************************************************************************)
ZeroSecs == [sec |-> 0, usec |-> 0]

AddSecs(a, b) ==
    [sec  |-> a.sec + b.sec + ((a.usec + b.usec) \div 1000000),
     usec |-> (a.usec + b.usec) % 1000000]

\* sum(series): starts from 0 and adds the elements left to right
RECURSIVE sum(_)
sum(s) == IF s = <<>> THEN ZeroSecs ELSE AddSecs(sum(SubSeq(s, 1, Len(s) - 1)), s[Len(s)])

\* mutant of convert_timestamps: a cell that does not parse becomes 0 seconds
convert_timestamps_lenient(df) ==
    [ok |-> TRUE,
     df |-> [i \in 1..Len(df) |-> [duration |-> to_seconds(df[i].duration).v,
                                    timestamp |-> to_seconds(df[i].timestamp).v]]]

convert_timestamps(df) ==
    LET D(i) == to_seconds(df[i].duration)
        T(i) == to_seconds(df[i].timestamp)
    IN  IF \A i \in 1..Len(df) : D(i).ok /\ T(i).ok
        THEN [ok |-> TRUE,
              df |-> [i \in 1..Len(df) |-> [duration |-> D(i).v, timestamp |-> T(i).v]]]
        ELSE [ok |-> FALSE, df |-> <<>>]

duration_column(df) == [i \in 1..Len(df) |-> df[i].duration]

\* mutant of grooming_intervals: the slice starts at index 0
grooming_intervals_from_zero(df) == PySlice(duration_column(df), 0, 2)

\* df.duration[1::2]: odd indices are grooming intervals
grooming_intervals(df) == PySlice(duration_column(df), 1, 2)

SG_duration(df) == sum(grooming_intervals(df))
SG_bout_count(df) == Len(grooming_intervals(df))

(***************************************************************************)
(* Light-dark trajectory: rows [X1, Y1] of cells; a cell is NaN or a       *)
(* number.  idTracker writes NaN in both columns of a frame in which the   *)
(* animal is not detected, and the inputs of the model do the same.        *)
(***************************************************************************)
NaN == [nan |-> TRUE, v |-> 0]
Cell(v) == [nan |-> FALSE, v |-> v]
isnan(c) == c.nan

total_frames == 29 * 600

\* pd.read_table(..., usecols=(0,1), nrows=total_frames)
read_table(content) == SubSeq(content, 1, Min(Len(content), total_frames))

X1col(df) == [i \in 1..Len(df) |-> df[i].X1]
Y1col(df) == [i \in 1..Len(df) |-> df[i].Y1]
NotNaN(c) == ~isnan(c)
RowNotNaN(r) == ~isnan(r.X1) /\ ~isnan(r.Y1)
dropna(series) == SelectSeq(series, NotNaN)
dropna_rows(df) == SelectSeq(df, RowNotNaN)

\* a fraction; every zero is the same value
Rat(n, m) == IF n = 0 THEN [num |-> 0, den |-> 1] ELSE [num |-> n, den |-> m]

\* len(trajectories.dropna()) / total_frames, then * 100
percent_light(trajectories) == Rat(Len(dropna_rows(trajectories)) * 100, total_frames)

\* math.dist(p, q): sqrt(sum((px - qx)^2)) over the coordinates of p and q,
\* ValueError when they differ in length.  sq is the value under the root.
dist(p, q) ==
    IF Len(p) # Len(q) THEN [ok |-> FALSE, sq |-> 0]
    ELSE [ok |-> TRUE,
          sq |-> SeqSum([i \in 1..Len(p) |-> (p[i].v - q[i].v) * (p[i].v - q[i].v)])]

\* in_perim / px_perim with in_perim = 2*(0.3048+0.1524), as a fraction
conversion(px_perim) == [num |-> 2 * (3048 + 1524), den |-> 10000 * px_perim]
px_perim_DKO == 218 + 224 + 427 + 444
px_perim_rotation == 276 + 288 + 551 + 557

\* dist(trajectories['X1'].dropna(), trajectories['Y1'].dropna()) * conversion
LD_distance(trajectories, px_perim) ==
    LET r == dist(dropna(X1col(trajectories)), dropna(Y1col(trajectories)))
    IN  [ok |-> r.ok, v |-> [sq |-> r.sq, num |-> conversion(px_perim).num,
                              den |-> conversion(px_perim).den]]

\* The transition loop.  previous starts as the numpy value trajectories['X1'][0];
\* current is the int 1 for a NaN frame and the str 'c' otherwise; the loop
\* compares type(current) with type(previous).
numpy_value(c) == [type |-> "numpy.float64", val |-> "x"]
current_of(c) == IF isnan(c) THEN [type |-> "int", val |-> "1"]
                 ELSE [type |-> "str", val |-> "c"]

RECURSIVE trans_loop(_, _, _, _)
trans_loop(X1, i, previous, trans_count) ==
    IF i >= Len(X1) THEN trans_count
    ELSE IF i = 0 THEN trans_loop(X1, i + 1, previous, trans_count)
    ELSE LET current == current_of(X1[i + 1])
         IN  trans_loop(X1, i + 1, current,
                        IF current.type # previous.type THEN trans_count + 1
                        ELSE trans_count)

\* KeyError on trajectories['X1'][0] when the table has no row
LD_transitions(trajectories) ==
    LET X1 == X1col(trajectories)
    IN  IF Len(X1) = 0 THEN [ok |-> FALSE, v |-> 0]
        ELSE [ok |-> TRUE, v |-> trans_loop(X1, 0, numpy_value(X1[1]), 0)]

(***************************************************************************)
(* Smallest enclosing circle (smallestenclosingcircle.make_circle).        *)
(* A circle is [ux, uy, dn, R2]: centre (ux/dn, uy/dn), squared radius     *)
(* R2/dn^2, so that integer points give integer records.  The result is    *)
(* the unique circle of minimum radius containing all points; it is        *)
(* determined by one, two (a diameter) or three (a circumcircle) of them.  *)
(***************************************************************************)
Sq(x) == x * x

circle_one_point(p) == [ux |-> p[1], uy |-> p[2], dn |-> 1, R2 |-> 0]

make_diameter(a, b) ==
    [ux |-> a[1] + b[1], uy |-> a[2] + b[2], dn |-> 2,
     R2 |-> Sq(a[1] - b[1]) + Sq(a[2] - b[2])]

\* twice the signed area of the triangle; 0 when the points are collinear
cross_product(a, b, c) ==
    a[1] * (b[2] - c[2]) + b[1] * (c[2] - a[2]) + c[1] * (a[2] - b[2])

make_circumcircle(a, b, c) ==
    LET dd == 2 * cross_product(a, b, c)
        na == Sq(a[1]) + Sq(a[2])
        nb == Sq(b[1]) + Sq(b[2])
        nc == Sq(c[1]) + Sq(c[2])
        x  == na * (b[2] - c[2]) + nb * (c[2] - a[2]) + nc * (a[2] - b[2])
        y  == na * (c[1] - b[1]) + nb * (a[1] - c[1]) + nc * (b[1] - a[1])
    IN  [ux |-> x, uy |-> y, dn |-> dd,
         R2 |-> Sq(a[1] * dd - x) + Sq(a[2] * dd - y)]

is_in_circle(c, p) == Sq(p[1] * c.dn - c.ux) + Sq(p[2] * c.dn - c.uy) <= c.R2

radius_le(c1, c2) == c1.R2 * Sq(c2.dn) <= c2.R2 * Sq(c1.dn)

boundary_circles(P) ==
    {circle_one_point(p) : p \in P}
    \cup {make_diameter(a, b) : a \in P, b \in P}
    \cup {make_circumcircle(t[1], t[2], t[3]) :
            t \in {u \in P \X P \X P : cross_product(u[1], u[2], u[3]) # 0}}

enclosing_circles(P) == {c \in boundary_circles(P) : \A p \in P : is_in_circle(c, p)}

\* P is a non-empty set of points
make_circle(P) ==
    CHOOSE c \in enclosing_circles(P) : \A c2 \in enclosing_circles(P) : radius_le(c, c2)

(***************************************************************************)
(* Open-field trajectory (ezTrack): rows with columns X, Y, Distance_px.   *)
(* A trajectory is written run-length encoded: [X, Y, Distance_px, n] is   *)
(* n consecutive frames with these three column values.                    *)
(***************************************************************************)
canonical_frames == 14400

RECURSIVE inside_count_of(_, _)
\* the loop over zip(location['X'], location['Y']):
\* (x - cx)**2 + (y - cy)**2 <= center_r**2 with center_r = r / sqrt(3)
inside_count_of(location, c) ==
    IF location = <<>> THEN 0
    ELSE LET run == location[Len(location)]
             rest == inside_count_of(SubSeq(location, 1, Len(location) - 1), c)
         IN  IF 3 * (Sq(run.X * c.dn - c.ux) + Sq(run.Y * c.dn - c.uy)) <= c.R2
             THEN rest + run.n ELSE rest

\* inside_count/14400 *100
center_prop(location, c) == [num |-> inside_count_of(location, c) * 100, den |-> canonical_frames]

\* sum(location['Distance_px']) * 0.42/217
OF_distance(location) ==
    Rat(SeqSum([i \in 1..Len(location) |-> location[i].Distance_px * location[i].n]) * 42,
        100 * 217)

(***************************************************************************)
(* The mouse dictionary d (insertion-ordered) and the table SUMdf          *)
(***************************************************************************)
Keys(dict) == [i \in 1..Len(dict) |-> dict[i].key]
HasKey(dict, name) == \E i \in 1..Len(dict) : dict[i].key = name
Value(dict, name) == dict[CHOOSE i \in 1..Len(dict) : dict[i].key = name].val

\* d[name] = val
DictSet(dict, name, val) ==
    IF HasKey(dict, name)
    THEN [i \in 1..Len(dict) |-> IF dict[i].key = name THEN [key |-> name, val |-> val]
                                 ELSE dict[i]]
    ELSE Append(dict, [key |-> name, val |-> val])

\* d[name][task] = df, for a key d has
SetTask(dict, name, task, df) ==
    LET old == Value(dict, name)
    IN  DictSet(dict, name,
                [t \in DOMAIN old \cup {task} |-> IF t = task THEN df ELSE old[t]])

NoTable == [defined |-> FALSE, cols |-> <<>>, rows |-> <<>>]
SeqRange(s) == {s[i] : i \in 1..Len(s)}
Subjs(df) == [i \in 1..Len(df.rows) |-> df.rows[i]["Subj"]]

\* pd.DataFrame(list(zip(keys, a, b)), columns=[c1, c2, c3]); zip stops at the
\* shortest of its arguments
DataFrame3(keys, a, b, c1, c2, c3) ==
    LET n == Min(Len(keys), Min(Len(a), Len(b)))
    IN  [defined |-> TRUE, cols |-> <<c1, c2, c3>>,
         rows |-> [i \in 1..n |->
                     [c \in {c1, c2, c3} |->
                        IF c = c1 THEN keys[i] ELSE IF c = c2 THEN a[i] ELSE b[i]]]]

\* SUMdf[cols] = 0; zero maps each new column to Python's 0 in the
\* representation of the column's values
AddCols(df, cols, zero) ==
    [defined |-> TRUE,
     cols |-> df.cols \o SelectSeq(cols, LAMBDA c : c \notin SeqRange(df.cols)),
     rows |-> [i \in 1..Len(df.rows) |->
                 [c \in DOMAIN df.rows[i] \cup SeqRange(cols) |->
                    IF c \in SeqRange(cols) THEN zero[c] ELSE df.rows[i][c]]]]

\* mutant of SetCol: the mask is ignored and every row is assigned
SetCol_all_rows(df, name, col, v) ==
    [df EXCEPT !.rows = [i \in 1..Len(df.rows) |-> [df.rows[i] EXCEPT ![col] = v]]]

\* mutant of SetCol: a name without row is added as a new row
SetCol_enlarging(df, name, col, v) ==
    IF \E i \in 1..Len(df.rows) : df.rows[i]["Subj"] = name
    THEN [df EXCEPT !.rows = [i \in 1..Len(df.rows) |->
                                IF df.rows[i]["Subj"] = name
                                THEN [df.rows[i] EXCEPT ![col] = v]
                                ELSE df.rows[i]]]
    ELSE [df EXCEPT !.rows = Append(df.rows,
                                [c \in SeqRange(df.cols) |->
                                   IF c = "Subj" THEN name
                                   ELSE IF c = col THEN v ELSE "NaN"])]

\* SUMdf.loc[SUMdf['Subj']==name, col] = v
SetCol(df, name, col, v) ==
    [df EXCEPT !.rows = [i \in 1..Len(df.rows) |->
                           IF df.rows[i]["Subj"] = name
                           THEN [df.rows[i] EXCEPT ![col] = v]
                           ELSE df.rows[i]]]

ZeroDist == [sq |-> 0, num |-> 0, den |-> 1]
LDcols == <<"LD % light", "LD distance", "LD transitions">>
LDzero == [c \in SeqRange(LDcols) |->
             IF c = "LD % light" THEN Rat(0, 1)
             ELSE IF c = "LD distance" THEN ZeroDist ELSE 0]
SGcols == <<"SG duration", "SG bouts">>
SGzero == [c \in SeqRange(SGcols) |-> IF c = "SG duration" THEN ZeroSecs ELSE 0]

(***************************************************************************)
(* Inputs of SpecFn                                                        *)
(***************************************************************************)
BoundedSeqs(S, n) == UNION {[1..m -> S] : m \in 0..n}

DigitChar(n) ==
    CASE n = 0 -> "0" [] n = 1 -> "1" [] n = 2 -> "2" [] n = 3 -> "3"
      [] n = 4 -> "4" [] n = 5 -> "5" [] n = 6 -> "6" [] n = 7 -> "7"
      [] n = 8 -> "8" [] n = 9 -> "9"
TwoDigits(n) == <<DigitChar(n \div 10), DigitChar(n % 10)>>
SixZeros == <<"0", "0", "0", "0", "0", "0">>
Stamp(h, m, s, f) == h \o <<":">> \o m \o <<":">> \o s \o <<".">> \o f
\* "00:MM:SS.000000"
SecondsStamp(n) == Stamp(<<"0", "0">>, TwoDigits(n \div 60), TwoDigits(n % 60), SixZeros)

HourFields == {<<"0", "0">>, <<"0", "1">>, <<"2", "3">>, <<"2", "4">>, <<"0">>, <<>>}
MinuteFields == {<<"0", "1">>, <<"5", "9">>, <<"6", "0">>, <<"1">>}
SecondFields == {<<"3", "0">>, <<"0", "5">>, <<"6", "0">>, <<"7">>, <<"1", "2", "3">>}
FractionFields == {<<"5", "0", "0", "0", "0", "0">>, SixZeros, <<"5">>,
                   <<"9", "9", "9", "9", "9", "9">>,
                   <<"1", "2", "3", "4", "5", "6", "7">>, <<>>}
MalformedStrings ==
    {<<>>, <<"x">>,
     <<"0", "0", ":", "0", "1", ":", "3", "0">>,
     <<"0", "0", ":", "0", "1", ".", "3", "0", ".", "5">>,
     <<"0", "0", ":", "0", "1", ":", "3", "0", ".", "5", " ">>,
     <<"0", "0", "-", "0", "1", "-", "3", "0", ".", "5">>}
TimestampStrings ==
    {Stamp(h, m, s, f) : h \in HourFields, m \in MinuteFields,
                         s \in SecondFields, f \in FractionFields}
    \cup MalformedStrings

GroomDurations == {SecondsStamp(5), SecondsStamp(70),
                   Stamp(<<"0", "0">>, <<"0", "1">>, <<"3", "0">>, <<"5">>),
                   <<"x">>}
GroomStamps == {SecondsStamp(0), <<"0", "0", ":", "0", "1">>}
GroomRows == {[duration |-> x, timestamp |-> t] : x \in GroomDurations, t \in GroomStamps}
GroomRow(n) == [duration |-> SecondsStamp(n), timestamp |-> SecondsStamp(0)]
ExampleTable == <<GroomRow(5), GroomRow(10), GroomRow(3), GroomRow(20),
                  GroomRow(2), GroomRow(15)>>
GroomTables == BoundedSeqs(GroomRows, MaxRows) \cup {ExampleTable}

NaNRow == [X1 |-> NaN, Y1 |-> NaN]
Frame(x, y) == [X1 |-> Cell(x), Y1 |-> Cell(y)]
LDRows == {NaNRow} \cup {Frame(x, y) : x \in 0..MaxCoord, y \in 0..MaxCoord}
ExampleTrajectory == <<Frame(0, 0), Frame(0, 0), NaNRow, NaNRow, Frame(0, 0)>>
LDTrajectories == BoundedSeqs(LDRows, MaxFrames) \cup {ExampleTrajectory}

(***************************************************************************)
(* SpecFn: one computation applied to one input                            *)
(***************************************************************************)
\* the directories the scripts read
Dirs == {"OF", "LD", "LD2", "SG", "R_SG", "Marbles"}
NothingRead == [dir \in Dirs |-> {}]

Idle ==
    /\ script = "none" /\ pc = "idle" /\ err = "none"
    /\ d = <<>> /\ SUMdf = [defined |-> FALSE, cols |-> <<>>, rows |-> <<>>]
    /\ circle = [defined |-> FALSE]
    /\ center_props = <<>> /\ distance_m = <<>>
    /\ SG_dur = <<>> /\ SG_bouts = <<>>
    /\ subjectdata = [defined |-> FALSE]
    /\ fs = NothingRead /\ ki = 0

FnInit ==
    /\ Idle
    /\ out = [done |-> FALSE]
    /\ \/ fn = "to_seconds" /\ inp \in TimestampStrings
       \/ fn = "groom" /\ inp \in GroomTables
       \/ /\ fn = "LD"
          /\ inp \in {[trajectories |-> t, px_perim |-> p] :
                        t \in LDTrajectories, p \in {px_perim_DKO, px_perim_rotation}}

\* one cell of the conversion loop
ApplyToSeconds ==
    /\ fn = "to_seconds" /\ ~out.done
    /\ out' = [done |-> TRUE, r |-> to_seconds(inp)]
    /\ UNCHANGED <<fn, inp>> /\ UNCHANGED pvars

\* the body of the grooming loop for one file: conversion, then the two sums
ApplyGroom ==
    /\ fn = "groom" /\ ~out.done
    /\ LET c == convert_timestamps(inp)
       IN  out' = IF c.ok
                  THEN [done |-> TRUE, ok |-> TRUE,
                        duration |-> SG_duration(c.df), bouts |-> SG_bout_count(c.df)]
                  ELSE [done |-> TRUE, ok |-> FALSE, duration |-> ZeroSecs, bouts |-> 0]
    /\ UNCHANGED <<fn, inp>> /\ UNCHANGED pvars

\* the body of the light-dark loop for one folder
ApplyLD ==
    /\ fn = "LD" /\ ~out.done
    /\ LET trajectories == read_table(inp.trajectories)
       IN  out' = [done |-> TRUE,
                   percent |-> percent_light(trajectories),
                   distance |-> LD_distance(trajectories, inp.px_perim),
                   transitions |-> LD_transitions(trajectories)]
    /\ UNCHANGED <<fn, inp>> /\ UNCHANGED pvars

FnNext == ApplyToSeconds \/ ApplyGroom \/ ApplyLD

SpecFn == FnInit /\ [][FnNext]_vars

(***************************************************************************)
(* The file system the scripts read.  A file or folder name is             *)
(* [prefix, name, suffix, ext]; the fixed-offset slices of the scripts     *)
(* remove a prefix or a suffix of the assumed length and leave name.       *)
(***************************************************************************)
MaxOFRuns == 1        \* runs of an open-field trajectory (Spec)
MaxWideRuns == 2      \* runs of an open-field trajectory (SpecOF)
PipeFrames == 1       \* frames of a light-dark trajectory (Spec)
PipeRows == 2         \* rows of a grooming table (Spec)
MaxGroomFiles == 3    \* files of get_rotation_data's grooming directory
MaxMarbleRows == 1    \* rows of the marble sheet

Subjects == {"A", "B"}

File(prefix, name, suffix, ext) ==
    [prefix |-> prefix, name |-> name, suffix |-> suffix, ext |-> ext]

OFFiles == {File("", s, "_LocationOutput", ".csv") : s \in Subjects}
           \cup {File("", "notes", "", ".txt")}
LDFolders == {File("", s, "", "") : s \in Subjects} \cup {File("", "segm", "", "")}
LD2Files == {File("", s, "", ".mp4") : s \in Subjects}
SGFiles == {File("", s, "", ".csv") : s \in Subjects} \cup {File("", "notes", "", ".txt")}
R_SGFiles == {File(p, s, "", ".csv") : p \in {"210101_CL_", "210102_CL_"}, s \in Subjects}
             \cup {File("", "notes", "", ".txt")}
R_LDFolders == {File("210301_", s, "", "") : s \in Subjects} \cup {File("", "segm", "", "")}

\* name = f[:-15] (get_DKO_data), f[10:] and subfol[7:] (get_rotation_data),
\* filename.split(".")[0] and the folder name itself elsewhere
subject_name(file) == file.name

\* open-field inputs: OFTrajectories for the whole run (Spec), the wider
\* WideOFTrajectories for the open-field section alone (SpecOF)
LongRun == [X |-> 2, Y |-> 1, Distance_px |-> 1, n |-> canonical_frames + 1]
OFTrajectories == BoundedSeqs({[X |-> 0, Y |-> 0, Distance_px |-> 1, n |-> 1]}, MaxOFRuns)
OFPoints == {<<0, 0>>, <<4, 0>>, <<2, 3>>, <<2, 1>>}
OFRuns == {[X |-> p[1], Y |-> p[2], Distance_px |-> 1, n |-> 1] : p \in OFPoints}
          \cup {LongRun}
WideOFTrajectories == BoundedSeqs(OFRuns, MaxWideRuns)

NoFile == [exists |-> FALSE, rows |-> <<>>]
PipeLDRows == {Frame(0, 1)}
LDContents == {NoFile} \cup {[exists |-> TRUE, rows |-> t] :
                               t \in BoundedSeqs(PipeLDRows, PipeFrames)}

BadRow == [duration |-> <<"x">>, timestamp |-> SecondsStamp(0)]
PipeGroomTables == BoundedSeqs({GroomRow(5)}, PipeRows) \cup {<<BadRow>>}

ColonyRecord == [Mouseline |-> "Syt3", Genotype |-> "-/-"]
SubjectData == UNION {[S -> {ColonyRecord}] : S \in SUBSET Subjects}

MarbleRows == {[Subject |-> s, buried |-> 3] : s \in Subjects}
MarbleSheets == BoundedSeqs(MarbleRows, MaxMarbleRows)

Seen(dir) == {f.file : f \in fs[dir]}
Read(dir, file, content) ==
    fs' = [fs EXCEPT ![dir] = @ \cup {[file |-> file, content |-> content]}]

\* an exception propagates to the top level and ends the script
Abort(e) == pc' = "aborted" /\ err' = e

Init ==
    /\ script \in {"DKO", "rotation"}
    /\ pc = IF script = "DKO" THEN "OF_load" ELSE "R_SG"
    /\ err = "none"
    /\ d = <<>> /\ SUMdf = NoTable
    /\ circle = [defined |-> FALSE]
    /\ center_props = <<>> /\ distance_m = <<>>
    /\ SG_dur = <<>> /\ SG_bouts = <<>>
    /\ subjectdata = [defined |-> FALSE]
    /\ fs = NothingRead /\ ki = 0
    /\ fn = "none" /\ inp = <<>> /\ out = [done |-> FALSE]

(***************************************************************************)
(* get_DKO_data: open field                                                *)
(***************************************************************************)
\* one iteration of the loop over os.listdir(OF_path), the file's table
\* drawn from T
OFLoadFrom(T) ==
    /\ pc = "OF_load"
    /\ \E file \in OFFiles \ Seen("OF") :
         IF file.ext = ".csv"
         THEN \E df \in T :
                /\ d' = DictSet(d, subject_name(file), [t \in {"OFdf"} |-> df])
                /\ Read("OF", file, df)
         ELSE /\ Read("OF", file, <<>>)
              /\ UNCHANGED d
    /\ UNCHANGED <<script, pc, err, SUMdf, circle, center_props, distance_m,
                   SG_dur, SG_bouts, subjectdata, ki>>
    /\ UNCHANGED fvars

\* mutant of points_of_all: X = x instead of X += x keeps the last subject only
points_of_last(dict) ==
    IF dict = <<>> THEN {}
    ELSE {<<dict[Len(dict)].val["OFdf"][j].X, dict[Len(dict)].val["OFdf"][j].Y>> :
            j \in 1..Len(dict[Len(dict)].val["OFdf"])}

\* the combined list of (x, y) of all subjects, as a set
points_of_all(dict) ==
    UNION {{<<dict[i].val["OFdf"][j].X, dict[i].val["OFdf"][j].Y>> :
              j \in 1..Len(dict[i].val["OFdf"])} : i \in 1..Len(dict)}

points == points_of_all(d)

\* the listing is exhausted; cx, cy, r = make_circle(points)
\* (make_circle returns None for no point, and the unpacking raises TypeError)
OFCircle ==
    /\ pc = "OF_load"
    /\ IF points = {}
       THEN /\ Abort("TypeError")
            /\ UNCHANGED <<circle, ki>>
       ELSE /\ circle' = [defined |-> TRUE, c |-> make_circle(points)]
            /\ pc' = "OF_metrics" /\ ki' = 1
            /\ UNCHANGED err
    /\ UNCHANGED <<script, d, SUMdf, center_props, distance_m,
                   SG_dur, SG_bouts, subjectdata, fs>>
    /\ UNCHANGED fvars

\* one iteration of the loop over d.keys() that fills center_props, distance_m
OFMetrics ==
    /\ pc = "OF_metrics" /\ ki <= Len(d)
    /\ LET location == d[ki].val["OFdf"]
       IN  /\ center_props' = Append(center_props, center_prop(location, circle.c))
           /\ distance_m' = Append(distance_m, OF_distance(location))
    /\ ki' = ki + 1
    /\ UNCHANGED <<script, pc, err, d, SUMdf, circle, SG_dur, SG_bouts, subjectdata, fs>>
    /\ UNCHANGED fvars

\* SUMdf = pd.DataFrame(list(zip(keys, center_props, distance_m)), ...)
OFSummary ==
    /\ pc = "OF_metrics" /\ ki > Len(d)
    /\ SUMdf' = DataFrame3(Keys(d), center_props, distance_m,
                           "Subj", "OF % center", "OF distance")
    /\ pc' = "LD_init"
    /\ UNCHANGED <<script, err, d, circle, center_props, distance_m,
                   SG_dur, SG_bouts, subjectdata, fs, ki>>
    /\ UNCHANGED fvars

(***************************************************************************)
(* Light-dark section (both scripts; they differ in the folder name's      *)
(* prefix and in px_perim)                                                 *)
(***************************************************************************)
\* SUMdf[['LD % light', 'LD distance', 'LD transitions']] = 0
LDInit ==
    /\ pc = "LD_init"
    /\ SUMdf' = AddCols(SUMdf, LDcols, LDzero)
    /\ pc' = "LD"
    /\ UNCHANGED <<script, err, d, circle, center_props, distance_m,
                   SG_dur, SG_bouts, subjectdata, fs, ki>>
    /\ UNCHANGED fvars

\* one iteration of the loop over the subfolders os.walk yields
LDFolder ==
    /\ pc = "LD"
    /\ \E folder \in (IF script = "DKO" THEN LDFolders ELSE R_LDFolders) \ Seen("LD"),
          content \in LDContents :
         LET name == subject_name(folder)
             ignored == folder.name \in {"segm", ".ipynb_checkpoints"}
             trajectories == read_table(content.rows)
             px == IF script = "DKO" THEN px_perim_DKO ELSE px_perim_rotation
             dis == LD_distance(trajectories, px)
             tr == LD_transitions(trajectories)
             S1 == SetCol(SUMdf, name, "LD % light", percent_light(trajectories))
             S2 == SetCol(S1, name, "LD distance", dis.v)
             S3 == SetCol(S2, name, "LD transitions", tr.v)
             d1 == SetTask(d, name, "LDdf", trajectories)
         IN  /\ ignored => content = NoFile
             /\ Read("LD", folder, content)
             /\ IF ignored THEN UNCHANGED <<d, SUMdf, pc, err>>
                ELSE IF ~content.exists
                     THEN Abort("FileNotFoundError") /\ UNCHANGED <<d, SUMdf>>
                ELSE IF ~HasKey(d, name)
                     THEN Abort("KeyError") /\ UNCHANGED <<d, SUMdf>>
                ELSE IF ~dis.ok
                     THEN Abort("ValueError") /\ d' = d1 /\ SUMdf' = S1
                ELSE IF ~tr.ok
                     THEN Abort("KeyError") /\ d' = d1 /\ SUMdf' = S2
                ELSE d' = d1 /\ SUMdf' = S3 /\ UNCHANGED <<pc, err>>
    /\ UNCHANGED <<script, circle, center_props, distance_m,
                   SG_dur, SG_bouts, subjectdata, ki>>
    /\ UNCHANGED fvars

\* os.walk is exhausted
LDEnd ==
    /\ pc = "LD"
    /\ pc' = IF script = "DKO" THEN "LD2" ELSE "done"
    /\ UNCHANGED <<script, err, d, SUMdf, circle, center_props, distance_m,
                   SG_dur, SG_bouts, subjectdata, fs, ki>>
    /\ UNCHANGED fvars

\* get_DKO_data: one iteration of the loop over os.listdir(LDpath2)
LD2File ==
    /\ pc = "LD2"
    /\ \E file \in LD2Files \ Seen("LD2") :
         LET name == subject_name(file)
         IN  /\ Read("LD2", file, <<>>)
             /\ IF HasKey(d, name)
                THEN d' = SetTask(d, name, "LDdf", "None") /\ UNCHANGED <<pc, err>>
                ELSE Abort("KeyError") /\ UNCHANGED d
    /\ UNCHANGED <<script, SUMdf, circle, center_props, distance_m,
                   SG_dur, SG_bouts, subjectdata, ki>>
    /\ UNCHANGED fvars

\* the listing is exhausted; SUMdf[['SG duration', 'SG bouts']] = 0
SGInit ==
    /\ pc = "LD2"
    /\ SUMdf' = AddCols(SUMdf, SGcols, SGzero)
    /\ pc' = "SG"
    /\ UNCHANGED <<script, err, d, circle, center_props, distance_m,
                   SG_dur, SG_bouts, subjectdata, fs, ki>>
    /\ UNCHANGED fvars

\* get_DKO_data: one iteration of the loop over os.listdir(SGpath)
SGFile ==
    /\ pc = "SG"
    /\ \E file \in SGFiles \ Seen("SG") :
         IF file.ext = ".csv"
         THEN \E content \in PipeGroomTables :
                LET name == subject_name(file)
                    c == convert_timestamps(content)
                    S1 == SetCol(SUMdf, name, "SG duration", SG_duration(c.df))
                    S2 == SetCol(S1, name, "SG bouts", SG_bout_count(c.df))
                IN  /\ Read("SG", file, content)
                    /\ IF ~c.ok THEN Abort("ValueError") /\ UNCHANGED <<d, SUMdf>>
                       ELSE IF ~HasKey(d, name)
                            THEN Abort("KeyError") /\ UNCHANGED <<d, SUMdf>>
                       ELSE /\ d' = SetTask(d, name, "SGdf", c.df)
                            /\ SUMdf' = S2
                            /\ UNCHANGED <<pc, err>>
         ELSE /\ Read("SG", file, <<>>)
              /\ UNCHANGED <<d, SUMdf, pc, err>>
    /\ UNCHANGED <<script, circle, center_props, distance_m,
                   SG_dur, SG_bouts, subjectdata, ki>>
    /\ UNCHANGED fvars

SGEnd ==
    /\ pc = "SG"
    /\ pc' = "done"
    /\ UNCHANGED <<script, err, d, SUMdf, circle, center_props, distance_m,
                   SG_dur, SG_bouts, subjectdata, fs, ki>>
    /\ UNCHANGED fvars

(***************************************************************************)
(* get_rotation_data                                                       *)
(***************************************************************************)
\* one iteration of the loop over os.listdir(groom_path)
R_SGFile ==
    /\ pc = "R_SG"
    /\ Cardinality(Seen("R_SG")) < MaxGroomFiles
    /\ \E file \in R_SGFiles \ Seen("R_SG") :
         IF file.ext = ".csv"
         THEN \E content \in PipeGroomTables :
                LET name == subject_name(file)
                    c == convert_timestamps(content)
                IN  /\ Read("R_SG", file, content)
                    /\ IF ~c.ok
                       THEN Abort("ValueError") /\ UNCHANGED <<d, SG_dur, SG_bouts>>
                       ELSE /\ d' = DictSet(d, name, [t \in {"SGdf"} |-> c.df])
                            /\ SG_dur' = Append(SG_dur, SG_duration(c.df))
                            /\ SG_bouts' = Append(SG_bouts, SG_bout_count(c.df))
                            /\ UNCHANGED <<pc, err>>
         ELSE /\ Read("R_SG", file, <<>>)
              /\ UNCHANGED <<d, SG_dur, SG_bouts, pc, err>>
    /\ UNCHANGED <<script, SUMdf, circle, center_props, distance_m, subjectdata, ki>>
    /\ UNCHANGED fvars

\* SUMdf = pd.DataFrame(list(zip(keys, SG_dur, SG_bouts)), ...)
R_Summary ==
    /\ pc = "R_SG"
    /\ SUMdf' = DataFrame3(Keys(d), SG_dur, SG_bouts, "Subj", "SG duration", "SG bouts")
    /\ pc' = "R_colony"
    /\ UNCHANGED <<script, err, d, circle, center_props, distance_m,
                   SG_dur, SG_bouts, subjectdata, fs, ki>>
    /\ UNCHANGED fvars

\* the colony import: subjectdata holds the colony records of the subjects,
\* keyed here by '<Cage ID>_<Ear notch>'; then SUMdf['Genotype'] = 0
\* (written "0": the column later holds strings)
R_Colony ==
    /\ pc = "R_colony"
    /\ \E sd \in SubjectData : subjectdata' = [defined |-> TRUE, rec |-> sd]
    /\ SUMdf' = AddCols(SUMdf, <<"Genotype">>, [c \in {"Genotype"} |-> "0"])
    /\ pc' = "R_genotype" /\ ki' = 1
    /\ UNCHANGED <<script, err, d, circle, center_props, distance_m,
                   SG_dur, SG_bouts, fs>>
    /\ UNCHANGED fvars

\* one iteration of the loop over d.keys(): row[...].values[0] raises
\* IndexError when no colony record matches the key
R_Genotype ==
    /\ pc = "R_genotype" /\ ki <= Len(d)
    /\ LET key == d[ki].key
       IN  IF key \in DOMAIN subjectdata.rec
           THEN /\ SUMdf' = SetCol(SUMdf, key, "Genotype",
                                   <<subjectdata.rec[key].Mouseline,
                                     subjectdata.rec[key].Genotype>>)
                /\ ki' = ki + 1
                /\ UNCHANGED <<pc, err>>
           ELSE /\ Abort("IndexError")
                /\ UNCHANGED <<SUMdf, ki>>
    /\ UNCHANGED <<script, d, circle, center_props, distance_m,
                   SG_dur, SG_bouts, subjectdata, fs>>
    /\ UNCHANGED fvars

RECURSIVE marbles_loop(_, _)
\* for i in range(len(marbles)): SUMdf.loc[SUMdf['Subj']==name, 'Marbles'] = ...
marbles_loop(df, marbles) ==
    IF marbles = <<>> THEN df
    ELSE marbles_loop(SetCol(df, marbles[1].Subject, "Marbles", marbles[1].buried),
                      Tail(marbles))

\* the marble section: read the sheet, SUMdf['Marbles'] = 0, the loop
R_Marbles ==
    /\ pc = "R_genotype" /\ ki > Len(d)
    /\ \E marbles \in MarbleSheets :
         /\ Read("Marbles", File("", "Marbles_buried", "", ".xlsx"), marbles)
         /\ SUMdf' = marbles_loop(AddCols(SUMdf, <<"Marbles">>, [c \in {"Marbles"} |-> 0]),
                                  marbles)
    /\ pc' = "LD_init"
    /\ UNCHANGED <<script, err, d, circle, center_props, distance_m,
                   SG_dur, SG_bouts, subjectdata, ki>>
    /\ UNCHANGED fvars

OFLoad == OFLoadFrom(OFTrajectories)
OFLoadWide == OFLoadFrom(WideOFTrajectories)

Next ==
    \/ OFLoad \/ OFCircle \/ OFMetrics \/ OFSummary
    \/ LDInit \/ LDFolder \/ LDEnd
    \/ LD2File \/ SGInit \/ SGFile \/ SGEnd
    \/ R_SGFile \/ R_Summary \/ R_Colony \/ R_Genotype \/ R_Marbles

Spec == Init /\ [][Next]_vars

\* the open-field section of get_DKO_data alone, over wider trajectories
OFInit == Init /\ script = "DKO"
OFNext == OFLoadWide \/ OFCircle \/ OFMetrics \/ OFSummary
SpecOF == OFInit /\ [][OFNext]_vars

(***************************************************************************)
(* Claims checked under SpecFn                                             *)
(***************************************************************************)
Detected(t) == dropna_rows(t)
StatusChanges(t) ==
    Cardinality({i \in 2..Len(t) : isnan(t[i].X1) # isnan(t[i - 1].X1)})

\* C1 (as stated): the 'LD transitions' value equals the number of indices
\* i >= 1 at which the detection status of frame i differs from that of frame
\* i-1: 0 for a trajectory whose status never changes, 2 for
\* [present, present, missing, missing, present].
C1_TransitionsCountStatusChanges ==
    (fn = "LD" /\ out.done /\ out.transitions.ok) =>
        out.transitions.v = StatusChanges(inp.trajectories)

\* C3 (as stated): for a trajectory with at least one non-missing frame the
\* 'LD distance' is the Euclidean distance between the first and the last
\* non-missing (X1, Y1) pair times the conversion constant.
C3_DistanceFirstToLast ==
    (fn = "LD" /\ out.done /\ Len(Detected(inp.trajectories)) >= 1) =>
        LET det == Detected(inp.trajectories)
            a == det[1]
            b == det[Len(det)]
        IN  /\ out.distance.ok
            /\ out.distance.v.sq = (a.X1.v - b.X1.v) * (a.X1.v - b.X1.v)
                                   + (a.Y1.v - b.Y1.v) * (a.Y1.v - b.Y1.v)
            /\ out.distance.v.num = 2 * (3048 + 1524)
            /\ out.distance.v.den = 10000 * inp.px_perim

Micro(v) == v.sec * 1000000 + v.usec
OddRows(t) == {i \in 1..Len(t) : (i - 1) % 2 = 1}
RECURSIVE MicroOver(_, _)
MicroOver(t, I) ==
    IF I = {} THEN 0
    ELSE LET i == CHOOSE j \in I : TRUE
         IN  Micro(to_seconds(t[i].duration).v) + MicroOver(t, I \ {i})

\* C4: 'SG duration' is the sum of the durations at the odd (0-based) indices
\* and 'SG bouts' is the number of odd-indexed rows, floor(n/2); the rows at
\* even indices contribute to neither; [5,10,3,20,2,15] gives 45 and 3.
C4_GroomingOddRows ==
    (fn = "groom" /\ out.done /\ out.ok) =>
        /\ Micro(out.duration) = MicroOver(inp, OddRows(inp))
        /\ out.bouts = Len(inp) \div 2
        /\ (inp = ExampleTable => out.duration = [sec |-> 45, usec |-> 0] /\ out.bouts = 3)

C4_Witness ==
    /\ fn = "groom" /\ out.done /\ out.ok /\ inp = ExampleTable
    /\ out.duration = [sec |-> 45, usec |-> 0] /\ out.bouts = 3

\* HH:MM:SS.ffffff with HH = "00", MM and SS in 00..59
StrictMatch(s) ==
    /\ Len(s) = 15
    /\ s[1] = "0" /\ s[2] = "0" /\ s[3] = ":" /\ s[6] = ":" /\ s[9] = "."
    /\ \A i \in {4, 5, 7, 8} \cup (10..15) : s[i] \in Digits
    /\ DigitVal(s[4]) <= 5 /\ DigitVal(s[7]) <= 5

\* C5 (as stated): the conversion accepts only the strings that strictly match
\* HH:MM:SS.ffffff with HH = "00", returning minutes*60 + seconds + fraction,
\* and every other input fails with a parse error.
C5_OnlyStrictStringsAccepted ==
    (fn = "to_seconds" /\ out.done) =>
        IF StrictMatch(inp)
        THEN /\ out.r.ok
             /\ out.r.v.sec = IntOf(SubSeq(inp, 4, 5)) * 60 + IntOf(SubSeq(inp, 7, 8))
             /\ out.r.v.usec = IntOf(SubSeq(inp, 10, 15))
        ELSE ~out.r.ok

(***************************************************************************)
(* Claims checked under SpecOF                                             *)
(***************************************************************************)
\* C2 (as stated): for an open-field trajectory of any length, also one with
\* more rows than the canonical 14400 frames, 'OF % center' lies in [0, 100].
C2_CenterPercentWithinRange ==
    \A i \in 1..Len(center_props) :
        /\ 0 <= center_props[i].num
        /\ center_props[i].num <= 100 * center_props[i].den

FramePoints(i) ==
    {<<d[i].val["OFdf"][j].X, d[i].val["OFdf"][j].Y>> : j \in 1..Len(d[i].val["OFdf"])}
AllFramePoints == UNION {FramePoints(i) : i \in 1..Len(d)}

C8_CircleEnclosesEveryPoint ==
    circle.defined =>
        /\ \A i \in 1..Len(d) : \A p \in FramePoints(i) :
              Sq(p[1] * circle.c.dn - circle.c.ux) + Sq(p[2] * circle.c.dn - circle.c.uy)
                 <= circle.c.R2
        /\ \A p \in AllFramePoints :
              AllFramePoints = {p} =>
                 /\ circle.c.R2 = 0
                 /\ circle.c.ux = p[1] * circle.c.dn
                 /\ circle.c.uy = p[2] * circle.c.dn

\* C8: the reference circle is computed once, from the combined points of all
\* subjects' open-field trajectories, and contains every point of every
\* subject's trajectory; for a single input point it has radius 0 and is
\* centred on that point.
C8_ReferenceCircleEnclosesAll ==
    /\ []C8_CircleEnclosesEveryPoint
    /\ [][circle.defined => circle' = circle]_vars

C8_Witness ==
    /\ circle.defined /\ Len(d) = 2 /\ pc = "LD_init"
    /\ circle.c.dn \notin {1, 2}
    /\ FramePoints(2) \ FramePoints(1) # {}
    /\ FramePoints(1) \ FramePoints(2) # {}

(***************************************************************************)
(* Claims checked under Spec                                               *)
(***************************************************************************)
NewFiles(dir) == fs'[dir] \ fs[dir]
IsFolderIgnored(file) == file.name \in {"segm", ".ipynb_checkpoints"}
RowsOf(s) == {i \in 1..Len(SUMdf.rows) : SUMdf.rows[i]["Subj"] = s}
MarbleSubjects ==
    UNION {{f.content[i].Subject : i \in 1..Len(f.content)} : f \in fs["Marbles"]}

\* C6 (as stated): every subject for which any task computes a metric has
\* exactly one row in SUMdf (stated for the runs whose first task found at
\* least one subject).
C6_EverySubjectWithMetricHasOneRow ==
    (SUMdf.defined /\ Len(d) >= 1) =>
        \A s \in SeqRange(Keys(d)) \cup MarbleSubjects : Cardinality(RowsOf(s)) = 1

FirstTask == {"OF_load", "OF_metrics", "R_SG"}

C6_RowsAreTheKeysOfD ==
    /\ pc \in FirstTask => ~SUMdf.defined
    /\ pc \notin FirstTask \cup {"aborted"} => SUMdf.defined
    /\ SUMdf.defined =>
         /\ Subjs(SUMdf) = Keys(d)
         /\ \A i, j \in 1..Len(SUMdf.rows) :
               SUMdf.rows[i]["Subj"] = SUMdf.rows[j]["Subj"] => i = j

C6_RowsNeverAddedOrDeleted ==
    SUMdf.defined =>
        /\ SUMdf'.defined
        /\ Subjs(SUMdf') = Subjs(SUMdf)
        /\ SeqRange(SUMdf.cols) \subseteq SeqRange(SUMdf'.cols)

\* C6 (amended): the rows of SUMdf are the subjects of the script's first task
\* (the keys of d), one row each, all created together when SUMdf is built
\* after the first task's loop; later tasks only add or update columns and
\* never add or delete a row.
C6_RowsOfFirstTaskOnly ==
    /\ []C6_RowsAreTheKeysOfD
    /\ [][C6_RowsNeverAddedOrDeleted]_vars

C6_Witness ==
    /\ script = "rotation" /\ pc = "done"
    /\ Keys(d) = <<"A">>
    /\ "B" \in MarbleSubjects
    /\ Len(SUMdf.rows) = 1
    /\ "Marbles" \in SeqRange(SUMdf.cols)
    /\ SUMdf.rows[1]["LD % light"] # Rat(0, 1)

HasBadStamp(table) ==
    \E i \in 1..Len(table) : ~strptime(table[i].duration).ok \/ ~strptime(table[i].timestamp).ok

\* the step reads a light-dark, NeverLeftDarkSide or grooming input that fails,
\* or looks up a key of d that has no colony record
FailingFileStep ==
    \/ \E f \in NewFiles("LD") :
          /\ ~IsFolderIgnored(f.file)
          /\ \/ ~f.content.exists
             \/ f.content.rows = <<>>
             \/ ~HasKey(d, f.file.name)
    \/ \E f \in NewFiles("LD2") : ~HasKey(d, f.file.name)
    \/ \E f \in NewFiles("SG") :
          f.file.ext = ".csv" /\ (HasBadStamp(f.content) \/ ~HasKey(d, f.file.name))
    \/ \E f \in NewFiles("R_SG") : f.file.ext = ".csv" /\ HasBadStamp(f.content)
    \/ /\ pc = "R_genotype" /\ ki <= Len(d)
       /\ d[ki].key \notin DOMAIN subjectdata.rec
       /\ vars' # vars

\* the step reads a marble sheet naming a subject that is no key of the
\* (non-empty) dictionary d
UnknownMarbleSubjectStep ==
    Len(d) >= 1 /\ \E f \in NewFiles("Marbles") :
        \E i \in 1..Len(f.content) : ~HasKey(d, f.content[i].Subject)

\* C7 (as stated): any input failure - a missing trajectories.txt, a malformed
\* grooming timestamp, a later-task subject name that is not a key of d, a key
\* of d without colony record - raises an exception at the step where it
\* occurs, and nothing is processed after it.
C7_EveryInputFailureAborts ==
    /\ [][(FailingFileStep \/ UnknownMarbleSubjectStep) => err' # "none"]_vars
    /\ [][err = "none"]_vars

\* C7 (amended): as stated, except that a marble-sheet subject that is no key
\* of d raises nothing: the marble loop skips it and the run goes on.
C7_InputFailuresAbortExceptMarbles ==
    /\ [][FailingFileStep => err' # "none" /\ pc' = "aborted"]_vars
    /\ [][NewFiles("Marbles") # {} => err' = "none" /\ pc' = "LD_init"]_vars
    /\ [][err = "none"]_vars

C7_Witness ==
    /\ script = "rotation" /\ err = "IndexError" /\ pc = "aborted"
    /\ SUMdf.defined /\ Len(d) = 2
    /\ "Genotype" \in SeqRange(SUMdf.cols)
    /\ "Marbles" \notin SeqRange(SUMdf.cols)
    /\ "LD % light" \notin SeqRange(SUMdf.cols)

LDProcessed == {f.file.name : f \in {g \in fs["LD"] : ~IsFolderIgnored(g.file)}}
HasLDcols == SUMdf.defined /\ SeqRange(LDcols) \subseteq SeqRange(SUMdf.cols)

C9_UnprocessedRowsStayZero ==
    (script = "DKO" /\ HasLDcols) =>
        \A i \in 1..Len(SUMdf.rows) :
            SUMdf.rows[i]["Subj"] \notin LDProcessed =>
                \A c \in SeqRange(LDcols) : SUMdf.rows[i][c] = LDzero[c]

C9_OnlyOwnLDColumnsChange ==
    (script = "DKO" /\ (pc = "LD" \/ NewFiles("LD2") # {})) =>
        /\ Len(SUMdf'.rows) = Len(SUMdf.rows)
        /\ \A i \in 1..Len(SUMdf.rows) :
              /\ SUMdf.rows[i]["Subj"] \notin {f.file.name : f \in NewFiles("LD")}
                    => SUMdf'.rows[i] = SUMdf.rows[i]
              /\ \A c \in DOMAIN SUMdf.rows[i] \ SeqRange(LDcols) :
                    SUMdf'.rows[i][c] = SUMdf.rows[i][c]

\* C9: in get_DKO_data every row whose subject had no processed subfolder under
\* the LD videos path (the subjects of NeverLeftDarkSide among them) keeps
\* 'LD % light', 'LD distance' and 'LD transitions' at their initial 0, and
\* processing subject s changes only the LD columns of the row of s.
C9_LDUpdatesOnlyOwnRow ==
    /\ []C9_UnprocessedRowsStayZero
    /\ [][C9_OnlyOwnLDColumnsChange]_vars

C9_Witness ==
    /\ script = "DKO" /\ pc = "done" /\ Len(SUMdf.rows) = 2
    /\ LDProcessed = {"A"}
    /\ "B" \in {f.file.name : f \in fs["LD2"]}
    /\ \E i \in 1..2 : SUMdf.rows[i]["Subj"] = "A" /\ SUMdf.rows[i]["LD % light"] # Rat(0, 1)
    /\ \E i \in 1..2 : SUMdf.rows[i]["Subj"] = "B" /\ SUMdf.rows[i]["LD % light"] = Rat(0, 1)

\* C10 (as stated): in get_rotation_data every row of the summary table pairs a
\* subject with the 'SG duration' and 'SG bouts' computed from a grooming file
\* whose filename maps to that subject, also when two filenames map to the
\* same subject.
C10_RowsPairSubjectWithOwnFile ==
    (script = "rotation" /\ SUMdf.defined) =>
        \A i \in 1..Len(SUMdf.rows) :
            \E f \in fs["R_SG"] :
                /\ f.file.ext = ".csv"
                /\ f.file.name = SUMdf.rows[i]["Subj"]
                /\ ~HasBadStamp(f.content)
                /\ SUMdf.rows[i]["SG duration"] = SG_duration(convert_timestamps(f.content).df)
                /\ SUMdf.rows[i]["SG bouts"] = SG_bout_count(convert_timestamps(f.content).df)

====
